---------------------------- MODULE Spec2Model ----------------------------
(***************************************************************************)
(* Model of the audio moderation pipeline:                                 *)
(*   backend/app/moderation_pipeline.py      AudioModerationPipeline       *)
(*   backend/app/transcription/transcription.py  TranscriptionService      *)
(*   backend/app/transcription/diarization.py    assign_speakers_...       *)
(*   backend/app/classification_model/hate_speech_classifier.py            *)
(*                                                                         *)
(* Times are Python floats in seconds.  The model measures them in ticks,  *)
(* TicksPerMs ticks to the millisecond, so that int(sec * 1000) is a real  *)
(* truncation and not the identity.  Confidences are in hundredths.        *)
(***************************************************************************)
EXTENDS Integers, Sequences, FiniteSets, TLC

\* ------------------------------------------------------------ bounds
\* Resolution of a float second: ticks per millisecond.
TicksPerMs == 2
\* Longest list of intervals given to the interval functions on their own.
MaxIntervals == 2
\* Longest audio, in milliseconds, given to the interval functions.
MaxDurationMs == 3

\* Interval end points (ticks) tried by the interval functions: negative,
\* zero, inside a millisecond, on a millisecond, beyond the audio.
IntervalTimes == {0 - 3, 0 - 1, 0, 1, 2, 5, 8}

None == "None"

\* ------------------------------------------------------------ helpers
Max(a, b) == IF a >= b THEN a ELSE b
Min(a, b) == IF a <= b THEN a ELSE b

\* Python int(x): truncation toward zero, of a time in ticks to milliseconds.
IntMs(t) == IF t >= 0 THEN t \div TicksPerMs ELSE 0 - ((0 - t) \div TicksPerMs)

\* Sequences over S of length 0..n.
SeqUpTo(S, n) == UNION {[1..k -> S] : k \in 0..n}

\* Python tuple order on (start, end) pairs.
TupleLeq(a, b) == a[1] < b[1] \/ (a[1] = b[1] /\ a[2] <= b[2])

RECURSIVE InsertSorted(_, _)
InsertSorted(x, s) ==
    IF s = <<>> THEN <<x>>
    ELSE IF TupleLeq(x, Head(s)) THEN <<x>> \o s
    ELSE <<Head(s)>> \o InsertSorted(x, Tail(s))

RECURSIVE sorted(_)
sorted(s) == IF s = <<>> THEN <<>> ELSE InsertSorted(Head(s), sorted(Tail(s)))

\* ------------------------------------------------------------ intervals
\* moderation_pipeline.py:190, the generator's element:
\* (max(0.0, start), max(start, end)).
ClampInterval(iv) == <<Max(0, iv[1]), Max(iv[1], iv[2])>>

\* moderation_pipeline.py:194-199, the loop over sorted_intervals[1:].
RECURSIVE MergeLoop(_, _, _, _)
MergeLoop(rest, current_start, current_end, merged) ==
    IF rest = <<>> THEN Append(merged, <<current_start, current_end>>)
    ELSE LET start == Head(rest)[1]
             end == Head(rest)[2]
         IN IF start <= current_end
            THEN MergeLoop(Tail(rest), current_start, Max(current_end, end), merged)
            ELSE MergeLoop(Tail(rest), start, end,
                           Append(merged, <<current_start, current_end>>))

\* A merge whose loop forgets the run in progress when a new one starts.
merge_intervals_dropping(intervals) ==
    IF intervals = <<>> THEN <<>>
    ELSE LET s == sorted([i \in 1..Len(intervals) |-> ClampInterval(intervals[i])])
         IN <<s[Len(s)]>>

\* A merge that joins everything into one interval, gaps included.
merge_intervals_hull(intervals) ==
    IF intervals = <<>> THEN <<>>
    ELSE LET s == sorted([i \in 1..Len(intervals) |-> ClampInterval(intervals[i])])
         IN MergeLoop(<<>>, s[1][1],
                      Max(s[1][2], s[Len(s)][2]), <<>>)

\* AudioModerationPipeline._merge_intervals
merge_intervals(intervals) ==
    IF intervals = <<>> THEN <<>>
    ELSE LET sorted_intervals ==
                 sorted([i \in 1..Len(intervals) |-> ClampInterval(intervals[i])])
         IN MergeLoop(Tail(sorted_intervals), sorted_intervals[1][1],
                      sorted_intervals[1][2], <<>>)

\* A loop that emits [cursor, start_ms) without looking at the duration.
RECURSIVE InvertLoopUnclamped(_, _, _, _)
InvertLoopUnclamped(rest, cursor_ms, keep, duration_ms) ==
    IF rest = <<>> THEN [cursor |-> cursor_ms, keep |-> keep]
    ELSE LET start_ms == Max(0, IntMs(Head(rest)[1]))
             end_ms == Max(start_ms, IntMs(Head(rest)[2]))
             keep1 == IF start_ms > cursor_ms
                      THEN Append(keep, <<cursor_ms, start_ms>>)
                      ELSE keep
             cursor1 == Max(cursor_ms, Min(end_ms, duration_ms))
         IN IF cursor1 >= duration_ms
            THEN [cursor |-> cursor1, keep |-> keep1]
            ELSE InvertLoopUnclamped(Tail(rest), cursor1, keep1, duration_ms)

\* moderation_pipeline.py:212-221, the loop with its break.
RECURSIVE InvertLoop(_, _, _, _)
InvertLoop(rest, cursor_ms, keep, duration_ms) ==
    IF rest = <<>> THEN [cursor |-> cursor_ms, keep |-> keep]
    ELSE LET start_ms == Max(0, IntMs(Head(rest)[1]))
             end_ms == Max(start_ms, IntMs(Head(rest)[2]))
             keep1 == IF start_ms > cursor_ms
                      THEN Append(keep, <<cursor_ms, Min(start_ms, duration_ms)>>)
                      ELSE keep
             cursor1 == Max(cursor_ms, Min(end_ms, duration_ms))
         IN IF cursor1 >= duration_ms
            THEN [cursor |-> cursor1, keep |-> keep1]
            ELSE InvertLoop(Tail(rest), cursor1, keep1, duration_ms)

\* Keeps the ranges r of s with r[2] > r[1] (moderation_pipeline.py:227).
RECURSIVE NonEmptyRanges(_)
NonEmptyRanges(s) ==
    IF s = <<>> THEN <<>>
    ELSE IF Head(s)[2] > Head(s)[1]
         THEN <<Head(s)>> \o NonEmptyRanges(Tail(s))
         ELSE NonEmptyRanges(Tail(s))

\* An inversion that forgets the range after the last interval.
invert_intervals_no_trailing(intervals, duration_ms) ==
    IF duration_ms <= 0 THEN <<>>
    ELSE NonEmptyRanges(InvertLoop(intervals, 0, <<>>, duration_ms).keep)

\* An inversion that keeps the audio up to each interval's END.
invert_intervals_late(intervals, duration_ms) ==
    IF duration_ms <= 0 THEN <<>>
    ELSE LET shifted == [i \in 1..Len(intervals) |->
                            <<intervals[i][2], intervals[i][2]>>]
             r == InvertLoop(shifted, 0, <<>>, duration_ms)
         IN NonEmptyRanges(IF r.cursor < duration_ms
                           THEN Append(r.keep, <<r.cursor, duration_ms>>)
                           ELSE r.keep)

\* AudioModerationPipeline._invert_intervals
invert_intervals(intervals, duration_ms) ==
    IF duration_ms <= 0 THEN <<>>
    ELSE LET r == InvertLoop(intervals, 0, <<>>, duration_ms)
         IN NonEmptyRanges(IF r.cursor < duration_ms
                           THEN Append(r.keep, <<r.cursor, duration_ms>>)
                           ELSE r.keep)

\* ------------------------------------------------------------ classifier
\* HateSpeechClassifier.LABELS
LABELS == {"NONE", "PROFANITY", "HATE", "EXTREMIST", "BOTH", "UNCLEAR", "UNCLEAR_ASR"}

\* OUTPUT_SCHEMA: "rationale": {"maxLength": 500}
RationaleMaxLength == 500
\* ClassificationInput.confidence_threshold = 0.45, in hundredths
DefaultConfidenceThreshold == 45
\* len("Classification failed due to error: ")
FallbackPrefixLen == 36

\* What the backend may do with one request.  A response is
\*   kind    "api_error"   chat.completions.create raises
\*           "no_content"  the completion carries no usable message content
\*           "text"        the completion carries text
\*   format  "json"        the text is one JSON document (doc)
\*           "fenced"      the text is prose around ```json <doc> ```
\*           "fenced_untagged"  the text is prose around ``` <doc> ```, the
\*                         fence without the word json
\*           "fenced_bad"  the text has a ```json {...} ``` block that is not JSON
\*           "garbage"     the text is not JSON and has no such block
\*   doc     the JSON document
\*   err_len the length of str(e) of the exception the response leads to, if any
TopKeys == {"label", "rationale", "spans", "safety"}
SafetyKeys == {"used_asr_confidence_rule", "notes"}
DocLabels == LABELS \cup {"SPAM"}
DocRationaleLens == {RationaleMaxLength, RationaleMaxLength + 1}
DocSpans == {<<>>,
             <<[char_start |-> 0, char_end |-> 4]>>,
             <<[char_start |-> 5, char_end |-> 2]>>,
             <<[char_start |-> 0 - 1, char_end |-> 3]>>}
ErrorMessageLens == {20, 480}

NoDoc ==
    [is_object |-> FALSE, keys |-> {}, label |-> "NONE",
     rationale_len |-> RationaleMaxLength, spans |-> <<>>, safety_keys |-> {},
     used_asr_confidence_rule |-> FALSE]

\* JSON objects: all top-level keys or all but one; both safety keys or one.
ObjectDocs ==
    {[is_object |-> TRUE, keys |-> k, label |-> l, rationale_len |-> r,
      spans |-> s, safety_keys |-> sk, used_asr_confidence_rule |-> u] :
        k \in {TopKeys} \cup {TopKeys \ {x} : x \in TopKeys},
        l \in DocLabels, r \in DocRationaleLens, s \in DocSpans,
        sk \in {SafetyKeys} \cup {SafetyKeys \ {x} : x \in SafetyKeys},
        u \in BOOLEAN}

Docs == ObjectDocs \cup {NoDoc}

Responses ==
    {[kind |-> "api_error", format |-> "garbage", doc |-> NoDoc, err_len |-> e] :
        e \in ErrorMessageLens}
    \cup
    {[kind |-> "no_content", format |-> "garbage", doc |-> NoDoc, err_len |-> e] :
        e \in ErrorMessageLens}
    \cup
    {[kind |-> "text", format |-> f, doc |-> NoDoc, err_len |-> e] :
        f \in {"garbage", "fenced_bad"}, e \in ErrorMessageLens}
    \cup
    {[kind |-> "text", format |-> f, doc |-> d, err_len |-> e] :
        f \in {"json", "fenced", "fenced_untagged"}, d \in Docs,
        e \in ErrorMessageLens}

\* jsonschema.validate(response_json, OUTPUT_SCHEMA): a property is checked
\* only when its key is present; "required" makes the four keys present.
SpanItemValid(span) == span.char_start >= 0 /\ span.char_end >= 0

\* A validation that does not look at the length of the rationale.
SchemaValidAnyRationale(doc) ==
    /\ doc.is_object
    /\ TopKeys \subseteq doc.keys
    /\ doc.label \in LABELS
    /\ \A i \in 1..Len(doc.spans) : SpanItemValid(doc.spans[i])
    /\ SafetyKeys \subseteq doc.safety_keys

SchemaValid(doc) ==
    /\ doc.is_object
    /\ TopKeys \subseteq doc.keys
    /\ doc.label \in LABELS
    /\ doc.rationale_len <= RationaleMaxLength
    /\ \A i \in 1..Len(doc.spans) : SpanItemValid(doc.spans[i])
    /\ SafetyKeys \subseteq doc.safety_keys

\* The exception raised inside the try block of classify (lines 155-199), or
\* None.  Each is named by its Python class.
ClassifyException(response) ==
    IF response.kind = "api_error" THEN "APIError"
    ELSE IF response.kind = "no_content" THEN "AttributeError"
    ELSE IF response.format \in {"garbage", "fenced_untagged"} THEN "ValueError"
    ELSE IF response.format = "fenced_bad" THEN "JSONDecodeError"
    ELSE IF ~SchemaValid(response.doc) THEN "ValidationError"
    ELSE None

\* A handler that catches only the errors classify raises itself.
CaughtByFallbackValueErrorOnly(exc) == exc \in {"ValueError", "JSONDecodeError"}

\* "except Exception as e": every class above derives from Exception.
CaughtByFallback(exc) ==
    exc \in {"APIError", "AttributeError", "ValueError", "JSONDecodeError",
             "ValidationError"}

\* Lines 194-199: the ClassificationOutput built from a validated response.
OutputFromDoc(doc) ==
    [label |-> doc.label,
     rationale |-> [source |-> "model", error |-> None, len |-> doc.rationale_len],
     spans |-> doc.spans,
     safety |-> [used_asr_confidence_rule |-> doc.used_asr_confidence_rule,
                 notes |-> None]]

\* A fallback that labels the segment HATE instead of UNCLEAR.
FallbackOutputFlagging(exc, err_len) ==
    [label |-> "HATE",
     rationale |-> [source |-> "fallback", error |-> exc,
                    len |-> FallbackPrefixLen + err_len],
     spans |-> <<>>,
     safety |-> [used_asr_confidence_rule |-> FALSE, notes |-> exc]]

\* Lines 203-211: the fallback ClassificationOutput.
FallbackOutput(exc, err_len) ==
    [label |-> "UNCLEAR",
     rationale |-> [source |-> "fallback", error |-> exc,
                    len |-> FallbackPrefixLen + err_len],
     spans |-> <<>>,
     safety |-> [used_asr_confidence_rule |-> FALSE, notes |-> exc]]

NoOutput ==
    [label |-> None,
     rationale |-> [source |-> None, error |-> None, len |-> 0],
     spans |-> <<>>,
     safety |-> [used_asr_confidence_rule |-> FALSE, notes |-> None]]

\* HateSpeechClassifier.classify: [raised, output].  The input's confidence
\* and threshold go into the request (lines 143-152) and nowhere else.
classify(input_data, response) ==
    LET exc == ClassifyException(response)
    IN IF exc = None
       THEN [raised |-> None, output |-> OutputFromDoc(response.doc)]
       ELSE IF CaughtByFallback(exc)
            THEN [raised |-> None, output |-> FallbackOutput(exc, response.err_len)]
            ELSE [raised |-> exc, output |-> NoOutput]

\* ------------------------------------------------------------ diarization
\* diarization.py:134-135
Overlap(start_a, end_a, start_b, end_b) ==
    Max(0, Min(end_a, end_b) - Max(start_a, start_b))

\* A loop in which a later turn with an equal overlap replaces the earlier.
RECURSIVE BestTurnLastWins(_, _, _, _)
BestTurnLastWins(turns, segment, best_label, best_overlap) ==
    IF turns = <<>> THEN [label |-> best_label, overlap |-> best_overlap]
    ELSE LET overlap == Overlap(segment.start, segment.end,
                                Head(turns).start, Head(turns).end)
         IN IF overlap >= best_overlap /\ overlap > 0
            THEN BestTurnLastWins(Tail(turns), segment, Head(turns).speaker, overlap)
            ELSE BestTurnLastWins(Tail(turns), segment, best_label, best_overlap)

\* diarization.py:141-145, the loop over the turns for one segment.
RECURSIVE BestTurn(_, _, _, _)
BestTurn(turns, segment, best_label, best_overlap) ==
    IF turns = <<>> THEN [label |-> best_label, overlap |-> best_overlap]
    ELSE LET overlap == Overlap(segment.start, segment.end,
                                Head(turns).start, Head(turns).end)
         IN IF overlap > best_overlap
            THEN BestTurn(Tail(turns), segment, Head(turns).speaker, overlap)
            ELSE BestTurn(Tail(turns), segment, best_label, best_overlap)

\* diarization.py:137-150, the body of the loop over the segments.
AssignSpeaker(segment, turns, min_overlap_seconds) ==
    LET best == BestTurn(turns, segment, None, 0)
    IN IF best.label # None /\ best.overlap >= min_overlap_seconds
       THEN [segment EXCEPT !.speaker = best.label]
       ELSE [segment EXCEPT !.speaker = None]

\* An assignment without the early return for an empty list of turns.
assign_speakers_to_segments_unguarded(segments, speaker_turns, min_overlap_seconds) ==
    [i \in 1..Len(segments) |->
        AssignSpeaker(segments[i], speaker_turns, min_overlap_seconds)]

\* assign_speakers_to_segments: the segments after the call.
assign_speakers_to_segments(segments, speaker_turns, min_overlap_seconds) ==
    IF speaker_turns = <<>> THEN segments
    ELSE [i \in 1..Len(segments) |->
             AssignSpeaker(segments[i], speaker_turns, min_overlap_seconds)]

\* ------------------------------------------------------------ pipeline
\* A default removal set that takes profanity out as well.
DefaultRemovalLabelsWithProfanity == {"HATE", "EXTREMIST", "BOTH", "PROFANITY"}

\* AudioModerationPipeline.DEFAULT_REMOVAL_LABELS
DEFAULT_REMOVAL_LABELS == {"HATE", "EXTREMIST", "BOTH"}

\* AudioModerationPipeline.__init__(default_asr_confidence=0.85), hundredths
DefaultAsrConfidence == 85

\* transcription.py:136-144: the segments built from what the model yields,
\* index = position in production order, speaker unset.
BuildSegments(raw) ==
    [i \in 1..Len(raw) |->
        [index |-> i - 1, start |-> raw[i][1], end |-> raw[i][2],
         text |-> <<"text", i - 1>>, speaker |-> None]]

\* moderation_pipeline.py:138-143, the ClassificationInput of a segment.
ClassificationInputOf(segment) ==
    [asr_mean_confidence |-> DefaultAsrConfidence,
     confidence_threshold |-> DefaultConfidenceThreshold]

\* moderation_pipeline.py:110-117
ClassifiedSegment(segment, classification) ==
    [index |-> segment.index, start |-> segment.start, end |-> segment.end,
     text |-> segment.text, speaker |-> segment.speaker,
     classification |-> classification]

\* A list that takes each new entry at its head.
PrependClassified(classified_segments, classified_segment) ==
    <<classified_segment>> \o classified_segments

\* moderation_pipeline.py:118, classified_segments.append(classified_segment)
AppendClassified(classified_segments, classified_segment) ==
    Append(classified_segments, classified_segment)

\* A redaction decided by the number of segments, not by the flags.
RedactionRequiredAlways(intervals) == TRUE

\* moderation_pipeline.py:124, "if removal_intervals:"
RedactionRequired(intervals) == intervals # <<>>

\* pydub: len(audio) milliseconds, each millisecond named by its position.
InputAudio(duration_ms) == [i \in 1..duration_ms |-> i]

\* pydub: audio[start_ms:end_ms]
Slice(audio, start_ms, end_ms) == SubSeq(audio, start_ms + 1, end_ms)

\* moderation_pipeline.py:164-170: the concatenation of the keep ranges.
RECURSIVE Splice(_, _)
Splice(audio, keep_ranges) ==
    IF keep_ranges = <<>> THEN <<>>
    ELSE Slice(audio, Head(keep_ranges)[1], Head(keep_ranges)[2])
             \o Splice(audio, Tail(keep_ranges))

\* A redaction that hands back the input when nothing is to be kept.
RedactedAudioInputWhenEmpty(audio, keep_ranges) ==
    IF keep_ranges = <<>> THEN audio ELSE Splice(audio, keep_ranges)

\* moderation_pipeline.py:164-170: AudioSegment.silent(duration=0) when no
\* keep range remains, the concatenation of the slices otherwise.
RedactedAudio(audio, keep_ranges) ==
    IF keep_ranges = <<>> THEN <<>> ELSE Splice(audio, keep_ranges)

NoAudio == [present |-> FALSE, samples |-> <<>>]

NoResult ==
    [present |-> FALSE, segments |-> <<>>, sanitized_audio |-> NoAudio,
     removed_intervals |-> <<>>]

\* ------------------------------------------------------------ state
VARIABLES
    iv_pc,          \* interval functions on their own: "input" | "merged" | "inverted"
    iv_input,       \* the list given to _merge_intervals
    iv_duration_ms, \* the duration given to _invert_intervals
    iv_merged,      \* _merge_intervals(iv_input)
    iv_keep,        \* _invert_intervals(iv_merged, iv_duration_ms)
    cl_pc,          \* one classify call: "input" | "done"
    cl_input,       \* its ClassificationInput
    cl_response,    \* what the backend did
    cl_result,      \* [raised, output]
    pc,             \* AudioModerationPipeline.run: "start" | "classify" | "redact"
                    \*   | "assemble" | "done" | "failed"
    scenario,       \* the family the run's inputs are drawn from
    audio_ms,       \* len(audio) of the file at audio_path, milliseconds
    pydub_available,        \* moderation_pipeline.AudioSegment is not None
    removal_labels_arg,     \* the removal_labels given to AudioModerationPipeline()
    removal_labels,         \* AudioModerationPipeline._removal_labels
    asr_model,              \* TranscriptionService._model
    diarization_service,    \* TranscriptionService._diarization_service
    diarization_enabled,    \* TranscriptionService._settings.diarization_enabled
    diarization_failure,    \* the diarization step that failed in this run, or None
    segments,               \* transcription_result.segments
    classified_segments,    \* run's classified_segments
    removal_intervals,      \* run's removal_intervals
    classify_calls,         \* the classifier's calls: [index, output] per call
    redaction,              \* _redact_audio: [calls, loads, exports, keep_ranges]
    sanitized_audio,        \* run's sanitized_audio: the file _redact_audio wrote
    result,                 \* the ModerationResult returned
    error,                  \* the exception run raised, or None
    sp_pc,          \* one assign_speakers_to_segments call: "input" | "done"
    sp_segments,    \* its list of segments, annotated in place
    sp_turns,       \* its speaker_turns
    sp_min_overlap, \* its min_overlap_seconds, ticks
    lz_pc,          \* concurrent transcribe calls: each thread's step
    lz_res,         \* the lazily built object each thread is ensuring
    lz_value,       \* _model, _diarization_service, _pipeline: instance or 0
    lz_lock,        \* _lock, _diarization_lock, DiarizationService._lock: holder or 0
    lz_constructed, \* instances each factory has returned
    lz_used,        \* the instance each thread's call got from each _ensure_*
    lz_enabled,     \* _settings.diarization_enabled
    ng_pc, \* one run_negative_output_handling call: "input" | "done"
    ng_result, \* its ModerationResult: the labels of result.segments
    ng_outcome, \* what _execute_negative_pipeline did
    ng_payload \* [raised, payload]: the dictionary returned

iv_vars == <<iv_pc, iv_input, iv_duration_ms, iv_merged, iv_keep>>
cl_vars == <<cl_pc, cl_input, cl_response, cl_result>>
sp_vars == <<sp_pc, sp_segments, sp_turns, sp_min_overlap>>
lz_vars == <<lz_pc, lz_res, lz_value, lz_lock, lz_constructed, lz_used, lz_enabled>>

ng_vars == <<ng_pc, ng_result, ng_outcome, ng_payload>>
run_vars == <<pc, scenario, audio_ms, pydub_available, removal_labels_arg, removal_labels,
              asr_model, diarization_service,
              diarization_enabled, diarization_failure, segments,
              classified_segments, removal_intervals, classify_calls, redaction,
              sanitized_audio, result, error>>

vars == <<iv_pc, iv_input, iv_duration_ms, iv_merged, iv_keep,
          cl_pc, cl_input, cl_response, cl_result,
          pc, scenario, audio_ms, pydub_available, removal_labels_arg, removal_labels,
          asr_model, diarization_service,
          diarization_enabled, diarization_failure, segments,
          classified_segments, removal_intervals, classify_calls, redaction,
          sanitized_audio, result, error,
          sp_pc, sp_segments, sp_turns, sp_min_overlap,
          lz_pc, lz_res, lz_value, lz_lock, lz_constructed, lz_used, lz_enabled,
          ng_pc, ng_result, ng_outcome, ng_payload>>

IvIdle ==
    /\ iv_pc = "idle"
    /\ iv_input = <<>>
    /\ iv_duration_ms = 0
    /\ iv_merged = <<>>
    /\ iv_keep = <<>>

NoResponse == [kind |-> None, format |-> None, doc |-> NoDoc, err_len |-> 0]
NoInput == [asr_mean_confidence |-> 0, confidence_threshold |-> 0]

ClIdle ==
    /\ cl_pc = "idle"
    /\ cl_input = NoInput
    /\ cl_response = NoResponse
    /\ cl_result = [raised |-> None, output |-> NoOutput]

SpIdle ==
    /\ sp_pc = "idle"
    /\ sp_segments = <<>>
    /\ sp_turns = <<>>
    /\ sp_min_overlap = 0

LzIdle ==
    /\ lz_pc = <<>>
    /\ lz_res = <<>>
    /\ lz_value = <<>>
    /\ lz_lock = <<>>
    /\ lz_constructed = <<>>
    /\ lz_used = <<>>
    /\ lz_enabled = FALSE

NoProcessing == [present |-> FALSE, success |-> FALSE]
NoOutcome == [kind |-> None, success |-> FALSE, exc |-> None]

NoPayload ==
    [raised |-> None, keys |-> {}, status |-> None, flagged_segments |-> 0,
     total_segments |-> 0, message |-> None, processing |-> NoProcessing]

NgIdle ==
    /\ ng_pc = "idle"
    /\ ng_result = <<>>
    /\ ng_outcome = NoOutcome
    /\ ng_payload = NoPayload

\* removal_labels=None, the default of the constructor.
NoRemovalLabelsArg == [given |-> FALSE, labels |-> {}]

NoRedaction == [calls |-> 0, loads |-> 0, exports |-> 0, keep_ranges |-> <<>>]

RunIdle ==
    /\ pc = "idle"
    /\ scenario = None
    /\ audio_ms = 0
    /\ pydub_available = FALSE
    /\ removal_labels_arg = NoRemovalLabelsArg
    /\ removal_labels = {}
    /\ asr_model = None
    /\ diarization_service = None
    /\ diarization_enabled = FALSE
    /\ diarization_failure = None
    /\ segments = <<>>
    /\ classified_segments = <<>>
    /\ removal_intervals = <<>>
    /\ classify_calls = <<>>
    /\ redaction = NoRedaction
    /\ sanitized_audio = NoAudio
    /\ result = NoResult
    /\ error = None

\* ------------------------------------------------------------ Spec
\* One run of AudioModerationPipeline.run on a fresh TranscriptionService.

\* Longest transcript, in segments.
MaxSegments == 2
\* Length of the audio file, in milliseconds.
MaxAudioMs == 2

\* The inputs of a run are drawn from one of two families, so that neither
\* the timing nor the labelling has to be thinned out:
\*   "timing"    every pair of segment end points, two backend answers
\*               (a label outside and a label inside the removal set);
\*   "labelling" two adjacent segments, every backend answer of RunResponses.
Scenarios == {"timing", "labelling"}

\* Segment end points (ticks) the speech model may report: before the audio,
\* inside the first millisecond, on the first millisecond, beyond the audio.
SegmentTimes == {0 - 1, 1, TicksPerMs, (MaxAudioMs + 1) * TicksPerMs + 1}
SegmentPairs(family) ==
    IF family = "timing" THEN SegmentTimes \X SegmentTimes
    ELSE {<<1, TicksPerMs>>, <<TicksPerMs, (MaxAudioMs + 1) * TicksPerMs + 1>>}
AsrOutputs(family) == SeqUpTo(SegmentPairs(family), MaxSegments)

\* What diarize may return, sorted by (start, end) (diarization.py:118).
TurnLists ==
    {<<>>,
     <<[speaker |-> "SPEAKER_00", start |-> 0, end |-> TicksPerMs],
       [speaker |-> "SPEAKER_01", start |-> TicksPerMs,
        end |-> (MaxAudioMs + 1) * TicksPerMs]>>}
\* settings.diarization_min_overlap, ticks
DiarizationMinOverlaps == {0, TicksPerMs}

\* What the classification backend may answer within a run: a valid
\* document for a label, or a failed call.
ValidResponse(label) ==
    [kind |-> "text", format |-> "json",
     doc |-> [is_object |-> TRUE, keys |-> TopKeys, label |-> label,
              rationale_len |-> RationaleMaxLength, spans |-> <<>>,
              safety_keys |-> SafetyKeys, used_asr_confidence_rule |-> FALSE],
     err_len |-> 20]
ApiErrorResponse ==
    [kind |-> "api_error", format |-> "garbage", doc |-> NoDoc, err_len |-> 20]
RunResponses(family) ==
    IF family = "timing" THEN {ValidResponse("NONE"), ValidResponse("HATE")}
    ELSE {ValidResponse(l) : l \in LABELS} \cup {ApiErrorResponse}

\* moderation_pipeline.py:90
RemovalLabelsOf(arg) ==
    IF arg.given /\ arg.labels # {} THEN arg.labels ELSE DEFAULT_REMOVAL_LABELS

\* The removal_labels a pipeline is constructed with: left out in the
\* "timing" family; left out, empty, and two sets of its own in "labelling".
RemovalLabelArgs(family) ==
    IF family = "timing" THEN {NoRemovalLabelsArg}
    ELSE {NoRemovalLabelsArg}
         \cup {[given |-> TRUE, labels |-> l] :
                  l \in {{}, {"PROFANITY"}, {"HATE", "UNCLEAR"}}}

Init ==
    /\ pc = "start"
    /\ scenario \in Scenarios
    /\ audio_ms = MaxAudioMs
    /\ pydub_available \in BOOLEAN
    /\ removal_labels_arg \in RemovalLabelArgs(scenario)
    /\ removal_labels = RemovalLabelsOf(removal_labels_arg)
    /\ asr_model = None
    /\ diarization_service = None
    /\ diarization_enabled \in BOOLEAN
    /\ diarization_failure = None
    /\ segments = <<>>
    /\ classified_segments = <<>>
    /\ removal_intervals = <<>>
    /\ classify_calls = <<>>
    /\ redaction = NoRedaction
    /\ sanitized_audio = NoAudio
    /\ result = NoResult
    /\ error = None
    /\ IvIdle
    /\ ClIdle
    /\ SpIdle
    /\ LzIdle
    /\ NgIdle

\* run raises exc: no ModerationResult is returned.
Raise(exc) ==
    /\ error' = exc
    /\ pc' = "failed"

\* A run that goes from the transcript straight to the redaction.
TranscribeReturnsSkippingLoop(segs) ==
    /\ segments' = segs
    /\ pc' = "redact"
    /\ error' = None

\* transcribe returns: run goes on to its loop over the segments
\* (moderation_pipeline.py:103-108).
TranscribeReturns(segs) ==
    /\ segments' = segs
    /\ pc' = IF segs = <<>> THEN "redact" ELSE "classify"
    /\ error' = None

\* transcription.py:78-86: the model factory raises in _ensure_model.
TranscribeModelFactoryFails ==
    /\ pc = "start"
    /\ asr_model = None
    /\ Raise("ModelFactoryError")
    /\ UNCHANGED <<scenario, audio_ms, pydub_available, removal_labels_arg, removal_labels,
                   asr_model,
                   diarization_service, diarization_enabled, diarization_failure,
                   segments, classified_segments, removal_intervals,
                   classify_calls, redaction, sanitized_audio, result>>
    /\ UNCHANGED <<iv_vars, cl_vars, sp_vars, lz_vars, ng_vars>>

\* A transcribe that logs the model's error and returns an empty transcript.
TranscribeAsrFailsSwallowed ==
    /\ pc = "start"
    /\ asr_model' = "model"
    /\ error' = "AsrError"
    /\ pc' = "redact"
    /\ UNCHANGED <<scenario, audio_ms, pydub_available, removal_labels_arg, removal_labels,
                   diarization_service, diarization_enabled, diarization_failure,
                   segments, classified_segments, removal_intervals,
                   classify_calls, redaction, sanitized_audio, result>>
    /\ UNCHANGED <<iv_vars, cl_vars, sp_vars, lz_vars, ng_vars>>

\* transcription.py:128-144: model.transcribe, or iterating its segments, raises.
TranscribeAsrFails ==
    /\ pc = "start"
    /\ asr_model' = "model"
    /\ Raise("AsrError")
    /\ UNCHANGED <<scenario, audio_ms, pydub_available, removal_labels_arg, removal_labels,
                   diarization_service, diarization_enabled, diarization_failure,
                   segments, classified_segments, removal_intervals,
                   classify_calls, redaction, sanitized_audio, result>>
    /\ UNCHANGED <<iv_vars, cl_vars, sp_vars, lz_vars, ng_vars>>

\* transcription.py:89-90: diarization is disabled.
TranscribeWithoutDiarization ==
    /\ pc = "start"
    /\ ~diarization_enabled
    /\ asr_model' = "model"
    /\ \E raw \in AsrOutputs(scenario) : TranscribeReturns(BuildSegments(raw))
    /\ UNCHANGED <<scenario, audio_ms, pydub_available, removal_labels_arg, removal_labels,
                   diarization_service, diarization_enabled, diarization_failure,
                   classified_segments, removal_intervals,
                   classify_calls, redaction, sanitized_audio, result>>
    /\ UNCHANGED <<iv_vars, cl_vars, sp_vars, lz_vars, ng_vars>>

\* transcription.py:95-102: the diarization factory raises RuntimeError.
TranscribeDiarizationFactoryRuntimeError ==
    /\ pc = "start"
    /\ diarization_enabled
    /\ diarization_service = None
    /\ asr_model' = "model"
    /\ diarization_enabled' = FALSE
    /\ diarization_failure' = "factory"
    /\ \E raw \in AsrOutputs(scenario) : TranscribeReturns(BuildSegments(raw))
    /\ UNCHANGED <<scenario, audio_ms, pydub_available, removal_labels_arg, removal_labels,
                   diarization_service,
                   classified_segments, removal_intervals,
                   classify_calls, redaction, sanitized_audio, result>>
    /\ UNCHANGED <<iv_vars, cl_vars, sp_vars, lz_vars, ng_vars>>

\* transcription.py:97-99: the diarization factory raises an exception that
\* is not a RuntimeError; "except RuntimeError" does not catch it.
TranscribeDiarizationFactoryOtherError ==
    /\ pc = "start"
    /\ diarization_enabled
    /\ diarization_service = None
    /\ asr_model' = "model"
    /\ diarization_failure' = "factory"
    /\ Raise("DiarizationFactoryError")
    /\ UNCHANGED <<scenario, audio_ms, pydub_available, removal_labels_arg, removal_labels,
                   diarization_service,
                   diarization_enabled, segments,
                   classified_segments, removal_intervals,
                   classify_calls, redaction, sanitized_audio, result>>
    /\ UNCHANGED <<iv_vars, cl_vars, sp_vars, lz_vars, ng_vars>>

\* transcription.py:147-151: diarize raises, in _ensure_pipeline (loading
\* the pipeline, diarization.py:79) or in the diarization itself; both leave
\* diarize as one exception, caught by "except Exception".
TranscribeDiarizeFails ==
    /\ pc = "start"
    /\ diarization_enabled
    /\ asr_model' = "model"
    /\ diarization_service' = "service"
    /\ diarization_failure' = "diarize"
    /\ \E raw \in AsrOutputs(scenario) : TranscribeReturns(BuildSegments(raw))
    /\ UNCHANGED <<scenario, audio_ms, pydub_available, removal_labels_arg, removal_labels,
                   diarization_enabled,
                   classified_segments, removal_intervals,
                   classify_calls, redaction, sanitized_audio, result>>
    /\ UNCHANGED <<iv_vars, cl_vars, sp_vars, lz_vars, ng_vars>>

\* transcription.py:146-157: diarize returns its turns and the speakers are
\* assigned.
TranscribeWithDiarization ==
    /\ pc = "start"
    /\ diarization_enabled
    /\ asr_model' = "model"
    /\ diarization_service' = "service"
    /\ \E raw \in AsrOutputs(scenario), turns \in TurnLists, min_overlap \in DiarizationMinOverlaps :
           TranscribeReturns(
               assign_speakers_to_segments(BuildSegments(raw), turns, min_overlap))
    /\ UNCHANGED <<scenario, audio_ms, pydub_available, removal_labels_arg, removal_labels,
                   diarization_enabled,
                   diarization_failure, classified_segments, removal_intervals,
                   classify_calls, redaction, sanitized_audio, result>>
    /\ UNCHANGED <<iv_vars, cl_vars, sp_vars, lz_vars, ng_vars>>

\* moderation_pipeline.py:108-121: one iteration of the loop.
ClassifySegment ==
    /\ pc = "classify"
    /\ LET i == Len(classify_calls) + 1
           segment == segments[i]
       IN \E response \in RunResponses(scenario) :
           LET r == classify(ClassificationInputOf(segment), response)
           IN /\ classify_calls' =
                     Append(classify_calls, [index |-> segment.index, output |-> r.output])
              /\ IF r.raised # None
                 THEN /\ Raise(r.raised)
                      /\ UNCHANGED <<classified_segments, removal_intervals>>
                 ELSE /\ classified_segments' =
                             AppendClassified(classified_segments,
                                              ClassifiedSegment(segment, r.output))
                      /\ removal_intervals' =
                             IF r.output.label \in removal_labels
                             THEN Append(removal_intervals, <<segment.start, segment.end>>)
                             ELSE removal_intervals
                      /\ pc' = IF i = Len(segments) THEN "redact" ELSE "classify"
                      /\ error' = None
    /\ UNCHANGED <<scenario, audio_ms, pydub_available, removal_labels_arg, removal_labels,
                   asr_model,
                   diarization_service, diarization_enabled, diarization_failure,
                   segments, redaction, sanitized_audio, result>>
    /\ UNCHANGED <<iv_vars, cl_vars, sp_vars, lz_vars, ng_vars>>

\* moderation_pipeline.py:123-124: nothing to remove, sanitized_audio = None.
SkipRedaction ==
    /\ pc = "redact"
    /\ ~RedactionRequired(removal_intervals)
    /\ pc' = "assemble"
    /\ UNCHANGED <<scenario, audio_ms, pydub_available, removal_labels_arg, removal_labels,
                   asr_model,
                   diarization_service, diarization_enabled, diarization_failure,
                   segments, classified_segments, removal_intervals,
                   classify_calls, redaction, sanitized_audio, result, error>>
    /\ UNCHANGED <<iv_vars, cl_vars, sp_vars, lz_vars, ng_vars>>

\* A redaction that logs the missing backend and returns no audio.
RedactBackendUnavailableSkipped ==
    /\ pc = "redact"
    /\ RedactionRequired(removal_intervals)
    /\ ~pydub_available
    /\ redaction' = [redaction EXCEPT !.calls = @ + 1]
    /\ pc' = "assemble"
    /\ UNCHANGED <<scenario, audio_ms, pydub_available, removal_labels_arg, removal_labels,
                   asr_model,
                   diarization_service, diarization_enabled, diarization_failure,
                   segments, classified_segments, removal_intervals,
                   classify_calls, sanitized_audio, result, error>>
    /\ UNCHANGED <<iv_vars, cl_vars, sp_vars, lz_vars, ng_vars>>

\* moderation_pipeline.py:153-156: AudioSegment is None.
RedactBackendUnavailable ==
    /\ pc = "redact"
    /\ RedactionRequired(removal_intervals)
    /\ ~pydub_available
    /\ redaction' = [redaction EXCEPT !.calls = @ + 1]
    /\ Raise("RuntimeError")
    /\ UNCHANGED <<scenario, audio_ms, pydub_available, removal_labels_arg, removal_labels,
                   asr_model,
                   diarization_service, diarization_enabled, diarization_failure,
                   segments, classified_segments, removal_intervals,
                   classify_calls, sanitized_audio, result>>
    /\ UNCHANGED <<iv_vars, cl_vars, sp_vars, lz_vars, ng_vars>>

\* moderation_pipeline.py:158, 182: AudioSegment.from_file or export raises.
RedactIoFails ==
    /\ pc = "redact"
    /\ RedactionRequired(removal_intervals)
    /\ pydub_available
    /\ redaction' = [redaction EXCEPT !.calls = @ + 1]
    /\ Raise("AudioIoError")
    /\ UNCHANGED <<scenario, audio_ms, pydub_available, removal_labels_arg, removal_labels,
                   asr_model,
                   diarization_service, diarization_enabled, diarization_failure,
                   segments, classified_segments, removal_intervals,
                   classify_calls, sanitized_audio, result>>
    /\ UNCHANGED <<iv_vars, cl_vars, sp_vars, lz_vars, ng_vars>>

\* moderation_pipeline.py:125, 158-183: _redact_audio loads, splices, exports.
Redact ==
    /\ pc = "redact"
    /\ RedactionRequired(removal_intervals)
    /\ pydub_available
    /\ LET audio == InputAudio(audio_ms)
           duration_ms == Len(audio)
           merged == merge_intervals(removal_intervals)
           keep_ranges == invert_intervals(merged, duration_ms)
       IN /\ redaction' = [calls |-> redaction.calls + 1,
                           loads |-> redaction.loads + 1,
                           exports |-> redaction.exports + 1,
                           keep_ranges |-> keep_ranges]
          /\ sanitized_audio' = [present |-> TRUE,
                               samples |-> RedactedAudio(audio, keep_ranges)]
    /\ pc' = "assemble"
    /\ UNCHANGED <<scenario, audio_ms, pydub_available, removal_labels_arg, removal_labels,
                   asr_model,
                   diarization_service, diarization_enabled, diarization_failure,
                   segments, classified_segments, removal_intervals,
                   classify_calls, result, error>>
    /\ UNCHANGED <<iv_vars, cl_vars, sp_vars, lz_vars, ng_vars>>

\* A result assembled without the sanitized audio.
AssembleWithoutAudio ==
    /\ pc = "assemble"
    /\ result' = [present |-> TRUE,
                  segments |-> classified_segments,
                  sanitized_audio |-> NoAudio,
                  removed_intervals |-> merge_intervals(removal_intervals)]
    /\ pc' = "done"
    /\ UNCHANGED <<scenario, audio_ms, pydub_available, removal_labels_arg, removal_labels,
                   asr_model,
                   diarization_service, diarization_enabled, diarization_failure,
                   segments, classified_segments, removal_intervals,
                   classify_calls, redaction, sanitized_audio, error>>
    /\ UNCHANGED <<iv_vars, cl_vars, sp_vars, lz_vars, ng_vars>>

\* moderation_pipeline.py:127-135
Assemble ==
    /\ pc = "assemble"
    /\ result' = [present |-> TRUE,
                  segments |-> classified_segments,
                  sanitized_audio |-> sanitized_audio,
                  removed_intervals |-> merge_intervals(removal_intervals)]
    /\ pc' = "done"
    /\ UNCHANGED <<scenario, audio_ms, pydub_available, removal_labels_arg, removal_labels,
                   asr_model,
                   diarization_service, diarization_enabled, diarization_failure,
                   segments, classified_segments, removal_intervals,
                   classify_calls, redaction, sanitized_audio, error>>
    /\ UNCHANGED <<iv_vars, cl_vars, sp_vars, lz_vars, ng_vars>>

Next ==
    \/ TranscribeModelFactoryFails
    \/ TranscribeAsrFails
    \/ TranscribeWithoutDiarization
    \/ TranscribeDiarizationFactoryRuntimeError
    \/ TranscribeDiarizationFactoryOtherError
    \/ TranscribeDiarizeFails
    \/ TranscribeWithDiarization
    \/ ClassifySegment
    \/ SkipRedaction
    \/ RedactBackendUnavailable
    \/ RedactIoFails
    \/ Redact
    \/ Assemble

Spec == Init /\ [][Next]_vars

\* ------------------------------------------------------------ SpecIntervals
IntervalInputs == SeqUpTo(IntervalTimes \X IntervalTimes, MaxIntervals)

InitIntervals ==
    /\ iv_pc = "input"
    /\ iv_input \in IntervalInputs
    /\ iv_duration_ms \in 0..MaxDurationMs
    /\ iv_merged = <<>>
    /\ iv_keep = <<>>
    /\ ClIdle
    /\ RunIdle
    /\ SpIdle
    /\ LzIdle
    /\ NgIdle

\* merged = self._merge_intervals(intervals)
Merge ==
    /\ iv_pc = "input"
    /\ iv_merged' = merge_intervals(iv_input)
    /\ iv_pc' = "merged"
    /\ UNCHANGED <<iv_input, iv_duration_ms, iv_keep>>
    /\ UNCHANGED <<cl_vars, run_vars, sp_vars, lz_vars, ng_vars>>

\* keep_ranges = self._invert_intervals(merged, duration_ms)
Invert ==
    /\ iv_pc = "merged"
    /\ iv_keep' = invert_intervals(iv_merged, iv_duration_ms)
    /\ iv_pc' = "inverted"
    /\ UNCHANGED <<iv_input, iv_duration_ms, iv_merged>>
    /\ UNCHANGED <<cl_vars, run_vars, sp_vars, lz_vars, ng_vars>>

NextIntervals == Merge \/ Invert

SpecIntervals == InitIntervals /\ [][NextIntervals]_vars

\* ------------------------------------------------------------ SpecClassify
\* asr_mean_confidence and confidence_threshold in hundredths: the spec's
\* example 0.30 against 0.45, the boundary, and the pipeline's default 0.85.
Confidences == {30, 45, 85}
Thresholds == {DefaultConfidenceThreshold, 90}

ClassificationInputs ==
    [asr_mean_confidence : Confidences, confidence_threshold : Thresholds]

InitClassify ==
    /\ cl_pc = "input"
    /\ cl_input \in ClassificationInputs
    /\ cl_response = NoResponse
    /\ cl_result = [raised |-> None, output |-> NoOutput]
    /\ IvIdle
    /\ RunIdle
    /\ SpIdle
    /\ LzIdle
    /\ NgIdle

\* One call of HateSpeechClassifier.classify, the backend answering as it likes.
Classify ==
    /\ cl_pc = "input"
    /\ \E response \in Responses :
           /\ cl_response' = response
           /\ cl_result' = classify(cl_input, response)
    /\ cl_pc' = "done"
    /\ UNCHANGED cl_input
    /\ UNCHANGED <<iv_vars, run_vars, sp_vars, lz_vars, ng_vars>>

NextClassify == Classify

SpecClassify == InitClassify /\ [][NextClassify]_vars

\* ------------------------------------------------------------ SpecAssign
\* One call of assign_speakers_to_segments on its own.

\* Longest list of speaker turns.
MaxTurns == 2

\* Times in ticks of the segments and the turns of a call.
SpeakerTimes == {0, 1, 2, 4}
Speakers == {"SPEAKER_00", "SPEAKER_01"}

\* Turns as pyannote reports them, start < end, in any order.
SpeakerTurns ==
    {t \in [speaker : Speakers, start : SpeakerTimes, end : SpeakerTimes] :
        t.start < t.end}
SpeakerTurnLists == SeqUpTo(SpeakerTurns, MaxTurns)

\* Segments with start <= end, their speaker unset or set by an earlier call.
SegmentAt(index, a, b, speaker) ==
    [index |-> index, start |-> a, end |-> b, text |-> <<"text", index>>,
     speaker |-> speaker]
FirstSegments ==
    {SegmentAt(0, p[1], p[2], sp) :
        p \in {q \in SpeakerTimes \X SpeakerTimes : q[1] <= q[2]},
        sp \in {None, "SPEAKER_09"}}
SecondSegments == {SegmentAt(1, 2, 4, None), SegmentAt(1, 4, 4, "SPEAKER_09")}
SpeakerSegmentLists ==
    {<<>>} \cup {<<s>> : s \in FirstSegments}
           \cup {<<s, t>> : s \in FirstSegments, t \in SecondSegments}

\* min_overlap_seconds, ticks
MinOverlaps == {0, 1, 3}

InitAssign ==
    /\ sp_pc = "input"
    /\ sp_segments \in SpeakerSegmentLists
    /\ sp_turns \in SpeakerTurnLists
    /\ sp_min_overlap \in MinOverlaps
    /\ IvIdle
    /\ ClIdle
    /\ RunIdle
    /\ LzIdle
    /\ NgIdle

\* assign_speakers_to_segments(segments, speaker_turns, min_overlap_seconds=...):
\* the segments are annotated in place, the turns are copied and only read.
AssignSpeakers ==
    /\ sp_pc = "input"
    /\ sp_segments' = assign_speakers_to_segments(sp_segments, sp_turns, sp_min_overlap)
    /\ sp_pc' = "done"
    /\ UNCHANGED <<sp_turns, sp_min_overlap>>
    /\ UNCHANGED <<iv_vars, cl_vars, run_vars, lz_vars, ng_vars>>

NextAssign == AssignSpeakers

SpecAssign == InitAssign /\ [][NextAssign]_vars

\* ------------------------------------------------------------ SpecLazyInit
\* Concurrent transcribe calls on one TranscriptionService (main.py runs
\* them through asyncio.to_thread): the three lazily built objects.

\* Threads calling transcribe at the same time.
MaxThreads == 2
Threads == 1..MaxThreads

\* _model, _diarization_service and the DiarizationService's _pipeline, in
\* the order transcribe ensures them.
Resources == {"model", "diarization_service", "pipeline"}

InitLazyInit ==
    /\ lz_pc = [t \in Threads |-> "check"]
    /\ lz_res = [t \in Threads |-> "model"]
    /\ lz_value = [r \in Resources |-> 0]
    /\ lz_lock = [r \in Resources |-> 0]
    /\ lz_constructed = [r \in Resources |-> 0]
    /\ lz_used = [t \in Threads |-> [r \in Resources |-> 0]]
    /\ lz_enabled \in BOOLEAN
    /\ IvIdle
    /\ ClIdle
    /\ RunIdle
    /\ SpIdle
    /\ NgIdle

\* transcribe after an _ensure_* has returned: on to the next one, or to
\* the end of the call (transcription.py:128-175).
Proceed(t) ==
    IF lz_res[t] = "pipeline"
    THEN /\ lz_pc' = [lz_pc EXCEPT ![t] = "done"]
         /\ lz_res' = lz_res
    ELSE /\ lz_pc' = [lz_pc EXCEPT ![t] = "check"]
         /\ lz_res' = [lz_res EXCEPT ![t] =
                          IF lz_res[t] = "model" THEN "diarization_service"
                          ELSE "pipeline"]

\* transcription.py:89-90: diarization is disabled, no diarizer.
EnsureDisabled(t) ==
    /\ lz_pc[t] = "check"
    /\ lz_res[t] = "diarization_service"
    /\ ~lz_enabled
    /\ lz_pc' = [lz_pc EXCEPT ![t] = "done"]
    /\ UNCHANGED <<lz_res, lz_value, lz_lock, lz_constructed, lz_used, lz_enabled>>
    /\ UNCHANGED <<iv_vars, cl_vars, run_vars, sp_vars, ng_vars>>

\* The first, unlocked test: "if self._x is not None: return self._x".
EnsureCheck(t) ==
    /\ lz_pc[t] = "check"
    /\ lz_res[t] = "diarization_service" => lz_enabled
    /\ IF lz_value[lz_res[t]] # 0
       THEN /\ lz_used' = [lz_used EXCEPT ![t][lz_res[t]] = lz_value[lz_res[t]]]
            /\ Proceed(t)
       ELSE /\ lz_pc' = [lz_pc EXCEPT ![t] = "acquire"]
            /\ UNCHANGED <<lz_res, lz_used>>
    /\ UNCHANGED <<lz_value, lz_lock, lz_constructed, lz_enabled>>
    /\ UNCHANGED <<iv_vars, cl_vars, run_vars, sp_vars, ng_vars>>

\* A "with" that enters without waiting for the lock.
EnsureAcquireWithoutWaiting(t) ==
    /\ lz_pc[t] = "acquire"
    /\ lz_lock' = [lz_lock EXCEPT ![lz_res[t]] = t]
    /\ lz_pc' = [lz_pc EXCEPT ![t] = "recheck"]
    /\ UNCHANGED <<lz_res, lz_value, lz_constructed, lz_used, lz_enabled>>
    /\ UNCHANGED <<iv_vars, cl_vars, run_vars, sp_vars, ng_vars>>

\* "with self._lock:" entered: threading.Lock is held by one thread at a time.
EnsureAcquire(t) ==
    /\ lz_pc[t] = "acquire"
    /\ lz_lock[lz_res[t]] = 0
    /\ lz_lock' = [lz_lock EXCEPT ![lz_res[t]] = t]
    /\ lz_pc' = [lz_pc EXCEPT ![t] = "recheck"]
    /\ UNCHANGED <<lz_res, lz_value, lz_constructed, lz_used, lz_enabled>>
    /\ UNCHANGED <<iv_vars, cl_vars, run_vars, sp_vars, ng_vars>>

\* The second test, under the lock: "if self._x is None:".
EnsureRecheck(t) ==
    /\ lz_pc[t] = "recheck"
    /\ lz_pc' = [lz_pc EXCEPT ![t] =
                    IF lz_value[lz_res[t]] = 0 THEN "construct" ELSE "release"]
    /\ UNCHANGED <<lz_res, lz_value, lz_lock, lz_constructed, lz_used, lz_enabled>>
    /\ UNCHANGED <<iv_vars, cl_vars, run_vars, sp_vars, ng_vars>>

\* "self._x = self._factory(self._settings)": the factory returns a new
\* instance, named by its number.
EnsureConstruct(t) ==
    /\ lz_pc[t] = "construct"
    /\ lz_constructed' = [lz_constructed EXCEPT ![lz_res[t]] = @ + 1]
    /\ lz_value' = [lz_value EXCEPT ![lz_res[t]] = lz_constructed[lz_res[t]] + 1]
    /\ lz_pc' = [lz_pc EXCEPT ![t] = "release"]
    /\ UNCHANGED <<lz_res, lz_lock, lz_used, lz_enabled>>
    /\ UNCHANGED <<iv_vars, cl_vars, run_vars, sp_vars, ng_vars>>

\* The factory raises and the exception leaves the "with", which releases
\* the lock.  From the model factory and from a diarization factory raising
\* something other than RuntimeError it leaves transcribe; from the pipeline
\* factory it is caught at transcription.py:150 and the transcript is returned.
EnsureFactoryRaises(t) ==
    /\ lz_pc[t] = "construct"
    /\ lz_lock' = [lz_lock EXCEPT ![lz_res[t]] = 0]
    /\ lz_pc' = [lz_pc EXCEPT ![t] = IF lz_res[t] = "pipeline" THEN "done" ELSE "failed"]
    /\ UNCHANGED <<lz_res, lz_value, lz_constructed, lz_used, lz_enabled>>
    /\ UNCHANGED <<iv_vars, cl_vars, run_vars, sp_vars, ng_vars>>

\* transcription.py:99-102: the diarization factory raises RuntimeError.
EnsureDiarizationRuntimeError(t) ==
    /\ lz_pc[t] = "construct"
    /\ lz_res[t] = "diarization_service"
    /\ lz_enabled' = FALSE
    /\ lz_lock' = [lz_lock EXCEPT ![lz_res[t]] = 0]
    /\ lz_pc' = [lz_pc EXCEPT ![t] = "done"]
    /\ UNCHANGED <<lz_res, lz_value, lz_constructed, lz_used>>
    /\ UNCHANGED <<iv_vars, cl_vars, run_vars, sp_vars, ng_vars>>

\* The end of the "with" block.
EnsureRelease(t) ==
    /\ lz_pc[t] = "release"
    /\ lz_lock' = [lz_lock EXCEPT ![lz_res[t]] = 0]
    /\ lz_pc' = [lz_pc EXCEPT ![t] = "return"]
    /\ UNCHANGED <<lz_res, lz_value, lz_constructed, lz_used, lz_enabled>>
    /\ UNCHANGED <<iv_vars, cl_vars, run_vars, sp_vars, ng_vars>>

\* "return self._x" after the block.
EnsureReturn(t) ==
    /\ lz_pc[t] = "return"
    /\ lz_used' = [lz_used EXCEPT ![t][lz_res[t]] = lz_value[lz_res[t]]]
    /\ Proceed(t)
    /\ UNCHANGED <<lz_value, lz_lock, lz_constructed, lz_enabled>>
    /\ UNCHANGED <<iv_vars, cl_vars, run_vars, sp_vars, ng_vars>>

NextLazyInit ==
    \E t \in Threads :
        \/ EnsureDisabled(t)
        \/ EnsureCheck(t)
        \/ EnsureAcquire(t)
        \/ EnsureRecheck(t)
        \/ EnsureConstruct(t)
        \/ EnsureFactoryRaises(t)
        \/ EnsureDiarizationRuntimeError(t)
        \/ EnsureRelease(t)
        \/ EnsureReturn(t)

SpecLazyInit == InitLazyInit /\ [][NextLazyInit]_vars

\* ------------------------------------------------------------ SpecNegative
\* One call of run_negative_output_handling on a ModerationResult.

\* negative_output_handling.py:14-21, the keys of _FLAGGED_LABEL_SEVERITY
FLAGGED_LABELS == {"HATE", "PROFANITY", "EXTREMIST", "BOTH"}

\* _build_summary, lines 193-197: the indexes of the flagged segments.
RECURSIVE FlaggedIndexes(_)
FlaggedIndexes(segs) ==
    IF segs = <<>> THEN <<>>
    ELSE IF Head(segs).label \in FLAGGED_LABELS
         THEN <<Head(segs).index>> \o FlaggedIndexes(Tail(segs))
         ELSE FlaggedIndexes(Tail(segs))

\* _build_summary
build_summary(moderation_result) ==
    LET flagged_indexes == FlaggedIndexes(moderation_result)
    IN [total_segments |-> Len(moderation_result),
        flagged_segments |-> Len(flagged_indexes),
        flagged_indexes |-> flagged_indexes,
        label_counts |->
            [l \in {moderation_result[i].label : i \in 1..Len(moderation_result)} |->
                Cardinality({i \in 1..Len(moderation_result) : moderation_result[i].label = l})]]

\* What _execute_negative_pipeline may do: return a processing section
\* whose success is true or false, or raise.  An exception is named by its
\* class: NegativeOutputHandlingUnavailable from _import_speech_processor,
\* AttributeError from a result without audio_bytes (line 231), OSError from
\* the temporary files, RuntimeError from the event loop.
PipelineOutcomes ==
    {[kind |-> "returns", success |-> b, exc |-> None] : b \in BOOLEAN}
    \cup {[kind |-> "raises", success |-> FALSE, exc |-> e] :
             e \in {"NegativeOutputHandlingUnavailable", "AttributeError", "OSError",
                    "RuntimeError"}}

\* Handlers that catch the component's own exception and nothing else.
HandlerOfUnavailableOnly(exc) ==
    IF exc = "NegativeOutputHandlingUnavailable" THEN "unavailable" ELSE None

\* Lines 171-178: the handler an exception of the pipeline reaches, by the
\* status it sets; every class above derives from Exception.
HandlerOf(exc) ==
    IF exc = "NegativeOutputHandlingUnavailable" THEN "unavailable"
    ELSE IF exc \in {"AttributeError", "OSError", "RuntimeError"} THEN "error"
    ELSE None

\* NegativeHandlingReport.to_dict, lines 100-109.
ReportToDict(report) ==
    [raised |-> None,
     keys |-> {"status", "summary"}
                  \cup (IF report.message # None THEN {"message"} ELSE {})
                  \cup (IF report.processing.present THEN {"processing"} ELSE {}),
     status |-> report.status,
     flagged_segments |-> report.summary.flagged_segments,
     total_segments |-> report.summary.total_segments,
     message |-> report.message,
     processing |-> report.processing]

\* run_negative_output_handling
run_negative_output_handling(moderation_result, outcome) ==
    LET summary == build_summary(moderation_result)
        report == [status |-> IF summary.flagged_segments = 0 THEN "clean" ELSE "pending",
                   summary |-> summary, message |-> None, processing |-> NoProcessing]
    IN IF summary.flagged_segments = 0
       THEN ReportToDict([report EXCEPT !.message = "skipped"])
       ELSE IF outcome.kind = "raises"
       THEN IF HandlerOf(outcome.exc) = None
            THEN [NoPayload EXCEPT !.raised = outcome.exc]
            ELSE ReportToDict([report EXCEPT !.status = HandlerOf(outcome.exc),
                                             !.message = "exc"])
       ELSE ReportToDict(
                [report EXCEPT !.processing = [present |-> TRUE, success |-> outcome.success],
                               !.status = IF outcome.success THEN "success" ELSE "partial",
                               !.message = IF ~outcome.success THEN "did not complete"
                                           ELSE None])

\* Most segments of a ModerationResult given to the handling.
MaxResultSegments == 2

\* result.segments, each segment by its index and label.
NegativeResults ==
    UNION {{[i \in 1..k |-> [index |-> i - 1, label |-> f[i]]] : f \in [1..k -> LABELS]} :
              k \in 0..MaxResultSegments}

InitNegative ==
    /\ ng_pc = "input"
    /\ ng_result \in NegativeResults
    /\ ng_outcome = NoOutcome
    /\ ng_payload = NoPayload
    /\ IvIdle
    /\ ClIdle
    /\ RunIdle
    /\ SpIdle
    /\ LzIdle

\* One call, the extended pipeline doing as it likes.
RunNegativeOutputHandling ==
    /\ ng_pc = "input"
    /\ \E outcome \in PipelineOutcomes :
           /\ ng_outcome' = outcome
           /\ ng_payload' = run_negative_output_handling(ng_result, outcome)
    /\ ng_pc' = "done"
    /\ UNCHANGED ng_result
    /\ UNCHANGED <<iv_vars, cl_vars, run_vars, sp_vars, lz_vars>>

NextNegative == RunNegativeOutputHandling

SpecNegative == InitNegative /\ [][NextNegative]_vars

\* ------------------------------------------------------------ C1
\* floor(1000 * t) of a time in ticks.
FloorMs(t) == t \div TicksPerMs

Flagged(classified_segment) == classified_segment.classification.label \in removal_labels

\* The milliseconds of the audio inside [floor(1000*start), floor(1000*end)).
SegmentMs(seg) ==
    {m \in 0..(audio_ms - 1) : FloorMs(seg.start) <= m /\ m < FloorMs(seg.end)}

InKeepRange(m, keep_ranges) ==
    \E k \in 1..Len(keep_ranges) : keep_ranges[k][1] <= m /\ m < keep_ranges[k][2]

\* C1: whenever run returns a result, for every segment whose label is in
\* the removal set the sanitized audio exists, and no millisecond of the
\* segment that lies inside the audio is in a keep range or in the audio
\* spliced from the keep ranges.
C1_NoRedactionDropped ==
    result.present =>
        \A i \in 1..Len(result.segments) :
            Flagged(result.segments[i]) =>
                /\ result.sanitized_audio.present
                /\ \A m \in SegmentMs(result.segments[i]) :
                       /\ ~InKeepRange(m, redaction.keep_ranges)
                       /\ \A j \in 1..Len(result.sanitized_audio.samples) :
                              result.sanitized_audio.samples[j] # m + 1

\* Two flagged segments given out of order that overlap, one of them
\* starting before the audio, with some audio removed and some kept.
C1_Witness ==
    /\ result.present
    /\ Len(result.segments) = 2
    /\ Flagged(result.segments[1])
    /\ Flagged(result.segments[2])
    /\ result.segments[2].start < 0
    /\ result.segments[2].start < result.segments[1].start
    /\ result.segments[1].start < result.segments[2].end
    /\ SegmentMs(result.segments[2]) # {}
    /\ result.sanitized_audio.samples # <<>>

\* ------------------------------------------------------------ C2
\* A failure outcome of the backend: the call raises, the completion has no
\* usable content, the text is not JSON, or the JSON fails the schema.
FailureOutcome(response) ==
    \/ response.kind # "text"
    \/ response.format \in {"garbage", "fenced_bad"}
    \/ ~SchemaValid(response.doc)

\* C2: classify is total.  It never raises; the label it returns is in the
\* closed set; on every failure outcome the label is UNCLEAR, the spans are
\* empty, the rationale is the failure's and safety.notes carries the error.
C2_ClassifyTotal ==
    cl_pc = "done" =>
        /\ cl_result.raised = None
        /\ cl_result.output.label \in LABELS
        /\ FailureOutcome(cl_response) =>
               /\ cl_result.output.label = "UNCLEAR"
               /\ cl_result.output.spans = <<>>
               /\ cl_result.output.rationale.source = "fallback"
               /\ cl_result.output.rationale.error # None
               /\ cl_result.output.safety.notes = cl_result.output.rationale.error
               /\ cl_result.output.safety.used_asr_confidence_rule = FALSE

\* A call whose backend raised, answered by the UNCLEAR fallback.
C2_Witness ==
    /\ cl_pc = "done"
    /\ cl_response.kind = "api_error"
    /\ cl_result.raised = None
    /\ cl_result.output.label = "UNCLEAR"
    /\ cl_result.output.safety.notes = "APIError"

\* ------------------------------------------------------------ C3
\* C3 as claimed: whenever asr_mean_confidence < confidence_threshold,
\* classify returns UNCLEAR_ASR with safety.used_asr_confidence_rule = true,
\* whatever the backend does.
C3_LowConfidenceShortCircuit ==
    (cl_pc = "done" /\ cl_input.asr_mean_confidence < cl_input.confidence_threshold) =>
        /\ cl_result.output.label = "UNCLEAR_ASR"
        /\ cl_result.output.safety.used_asr_confidence_rule = TRUE

\* ------------------------------------------------------------ C4
AnyFlagged == \E i \in 1..Len(classified_segments) : Flagged(classified_segments[i])

\* C4: with a flagged segment and no splicing backend, run returns no
\* result: from the redaction step it can only raise; and no returned result
\* of a run with a flagged segment lacks the sanitized audio.
C4_RedactionUnavailableIsFatal ==
    /\ []((AnyFlagged /\ ~pydub_available) =>
              (~result.present /\ pc \in {"classify", "redact", "failed"}))
    /\ []((result.present /\ AnyFlagged) => result.sanitized_audio.present)
    /\ [][(pc = "redact" /\ AnyFlagged /\ ~pydub_available) =>
              (pc' = "failed" /\ error' = "RuntimeError" /\ ~result'.present)]_vars

\* A run that flagged a segment and failed for want of the backend.
C4_Witness ==
    /\ pc = "failed"
    /\ error = "RuntimeError"
    /\ AnyFlagged
    /\ ~pydub_available
    /\ ~result.present

\* ------------------------------------------------------------ C5
\* The run is past line 125: it has decided on the redaction.
PastRedaction ==
    \/ pc \in {"assemble", "done"}
    \/ (pc = "failed" /\ error \in {"RuntimeError", "AudioIoError"})

\* C5: within one run _redact_audio is invoked exactly once if a segment's
\* label is in the removal set and never otherwise; a redaction that
\* returned loaded and exported the audio once.
C5_RedactionOnceIffFlagged ==
    /\ redaction.calls <= 1
    /\ ~PastRedaction => redaction.calls = 0
    /\ PastRedaction => redaction.calls = (IF AnyFlagged THEN 1 ELSE 0)
    /\ pc \in {"assemble", "done"} =>
           /\ redaction.loads = redaction.calls
           /\ redaction.exports = redaction.calls

\* A finished run of two segments, one flagged and one not, redacted once.
C5_Witness ==
    /\ pc = "done"
    /\ Len(classified_segments) = 2
    /\ ~Flagged(classified_segments[1])
    /\ Flagged(classified_segments[2])
    /\ redaction.calls = 1

\* ------------------------------------------------------------ C6
\* C6: when transcribe raises for the speech model (its factory or its
\* transcribe call), run raises, returns no result, calls the classifier for
\* no segment and performs no redaction.
C6_AsrFailureIsFatal ==
    error \in {"ModelFactoryError", "AsrError"} =>
        /\ pc = "failed"
        /\ ~result.present
        /\ classify_calls = <<>>
        /\ classified_segments = <<>>
        /\ redaction.calls = 0
        /\ ~sanitized_audio.present

\* A run whose model.transcribe raised.
C6_Witness ==
    /\ pc = "failed"
    /\ error = "AsrError"
    /\ asr_model = "model"

\* ------------------------------------------------------------ C7
\* C7 as claimed: whenever a diarization step fails, whatever it raises,
\* transcribe still returns the transcript with every speaker unset, and the
\* run goes on to classify.
C7_DiarizationFailureNonFatal ==
    diarization_failure # None =>
        /\ error # "DiarizationFactoryError"
        /\ pc # "start"
        /\ \A i \in 1..Len(segments) : segments[i].speaker = None

\* ------------------------------------------------------------ C8
\* C8: a returned result has one ClassifiedSegment per transcript segment,
\* in transcript order, with the segment's index (= its position), start,
\* end, text and speaker and the classification the classifier returned for
\* that segment.
C8_ClassificationCoverage ==
    result.present =>
        /\ Len(result.segments) = Len(segments)
        /\ Len(classify_calls) = Len(segments)
        /\ \A i \in 1..Len(segments) :
               /\ result.segments[i].index = i - 1
               /\ result.segments[i].index = segments[i].index
               /\ result.segments[i].start = segments[i].start
               /\ result.segments[i].end = segments[i].end
               /\ result.segments[i].text = segments[i].text
               /\ result.segments[i].speaker = segments[i].speaker
               /\ classify_calls[i].index = segments[i].index
               /\ result.segments[i].classification = classify_calls[i].output

\* A result of two segments with different speakers, the first degraded to
\* the UNCLEAR fallback and the second labelled HATE.
C8_Witness ==
    /\ result.present
    /\ Len(result.segments) = 2
    /\ result.segments[1].classification.rationale.source = "fallback"
    /\ result.segments[2].classification.label = "HATE"
    /\ result.segments[1].speaker = "SPEAKER_00"
    /\ result.segments[2].speaker = "SPEAKER_01"

\* ------------------------------------------------------------ C9
\* C9 as claimed: when no segment's label is in the removal set, redaction
\* is skipped, removed_intervals is empty and the audio delivered with the
\* result is the input audio.
C9_NoOpRedactionReturnsInput ==
    (result.present /\ ~AnyFlagged) =>
        /\ redaction.calls = 0
        /\ result.removed_intervals = <<>>
        /\ result.sanitized_audio = [present |-> TRUE, samples |-> InputAudio(audio_ms)]

\* ------------------------------------------------------------ C10
\* C10 as claimed: for every input list, _merge_intervals returns a list
\* sorted by start in which every interval has 0 <= start <= end and every
\* two consecutive intervals have previous.end < next.start.
C10_MergedSortedDisjointWellFormed ==
    iv_pc # "input" =>
        /\ \A i \in 1..Len(iv_merged) :
               0 <= iv_merged[i][1] /\ iv_merged[i][1] <= iv_merged[i][2]
        /\ \A i \in 1..(Len(iv_merged) - 1) :
               /\ iv_merged[i][1] <= iv_merged[i + 1][1]
               /\ iv_merged[i][2] < iv_merged[i + 1][1]

\* ------------------------------------------------------------ C11
\* C11: merging is idempotent: the list _merge_intervals returned, given to
\* _merge_intervals again, comes back unchanged.
C11_MergeIdempotent ==
    iv_pc \in {"merged", "inverted"} => merge_intervals(iv_merged) = iv_merged

\* ------------------------------------------------------------ C12
\* The milliseconds of [0, duration_ms) inside an interval given in seconds,
\* both of its ends floored to the millisecond.
IntervalMs(iv, duration_ms) ==
    {m \in 0..(duration_ms - 1) : FloorMs(iv[1]) <= m /\ m < FloorMs(iv[2])}

SortedDisjoint(intervals) ==
    \A i \in 1..(Len(intervals) - 1) :
        /\ intervals[i][1] <= intervals[i + 1][1]
        /\ intervals[i][2] < intervals[i + 1][1]

\* C12: for a sorted, disjoint merged list and a duration > 0 the keep ranges
\* are non-empty, inside [0, duration], ascending and pairwise disjoint, and a
\* millisecond of [0, duration) is in a keep range exactly when it is in no
\* merged interval.
C12_InvertIsComplement ==
    (iv_pc = "inverted" /\ iv_duration_ms > 0 /\ SortedDisjoint(iv_merged)) =>
        /\ \A k \in 1..Len(iv_keep) :
               /\ 0 <= iv_keep[k][1]
               /\ iv_keep[k][1] < iv_keep[k][2]
               /\ iv_keep[k][2] <= iv_duration_ms
        /\ \A k \in 1..(Len(iv_keep) - 1) : iv_keep[k][2] <= iv_keep[k + 1][1]
        /\ \A m \in 0..(iv_duration_ms - 1) :
               InKeepRange(m, iv_keep) <=>
                   ~(\E i \in 1..Len(iv_merged) : m \in IntervalMs(iv_merged[i], iv_duration_ms))

\* Two merged intervals, the second reaching beyond the audio, with audio
\* kept between them and audio removed.
C12_Witness ==
    /\ iv_pc = "inverted"
    /\ iv_duration_ms = MaxDurationMs
    /\ Len(iv_merged) = 2
    /\ IntervalMs(iv_merged[1], iv_duration_ms) # {}
    /\ FloorMs(iv_merged[2][2]) > iv_duration_ms
    /\ Len(iv_keep) >= 1

\* ------------------------------------------------------------ C13
RECURSIVE KeptLength(_)
KeptLength(keep_ranges) ==
    IF keep_ranges = <<>> THEN 0
    ELSE (Head(keep_ranges)[2] - Head(keep_ranges)[1]) + KeptLength(Tail(keep_ranges))

\* The length in milliseconds of an interval clamped to [0, duration_ms].
ClampedLength(iv, duration_ms) ==
    Max(0, Min(Max(FloorMs(iv[2]), 0), duration_ms)
             - Min(Max(FloorMs(iv[1]), 0), duration_ms))

RECURSIVE RemovedLength(_, _)
RemovedLength(intervals, duration_ms) ==
    IF intervals = <<>> THEN 0
    ELSE ClampedLength(Head(intervals), duration_ms)
             + RemovedLength(Tail(intervals), duration_ms)

\* C13: the lengths of the keep ranges add up to the duration minus the
\* lengths of the merged intervals clamped to [0, duration].
C13_KeptDuration ==
    iv_pc = "inverted" =>
        KeptLength(iv_keep) = iv_duration_ms - RemovedLength(iv_merged, iv_duration_ms)

\* Two flagged intervals that merge into one, which starts inside the audio
\* and ends beyond it.
C13_Witness ==
    /\ iv_pc = "inverted"
    /\ Len(iv_input) = 2
    /\ Len(iv_merged) = 1
    /\ iv_duration_ms = MaxDurationMs
    /\ FloorMs(iv_merged[1][2]) > iv_duration_ms
    /\ KeptLength(iv_keep) > 0
    /\ KeptLength(iv_keep) < iv_duration_ms

\* ------------------------------------------------------------ C14
\* The merged intervals of the run cover every millisecond of the audio.
MergedCoverAudio ==
    LET merged == merge_intervals(removal_intervals)
    IN \A m \in 0..(audio_ms - 1) :
           \E i \in 1..Len(merged) : m \in IntervalMs(merged[i], audio_ms)

\* C14: when the merged intervals cover the whole audio, _redact_audio
\* computes no keep range and writes an audio of length zero.
C14_FullRedaction ==
    (pc \in {"assemble", "done"} /\ redaction.exports = 1 /\ MergedCoverAudio) =>
        /\ redaction.keep_ranges = <<>>
        /\ sanitized_audio.present
        /\ sanitized_audio.samples = <<>>

\* A returned result whose flagged segments cover the audio only together.
C14_Witness ==
    /\ pc = "done"
    /\ result.present
    /\ redaction.exports = 1
    /\ MergedCoverAudio
    /\ Len(removal_intervals) = 2
    /\ \A i \in 1..2 : IntervalMs(removal_intervals[i], audio_ms) # 0..(audio_ms - 1)
    /\ result.sanitized_audio.samples = <<>>

\* ------------------------------------------------------------ C15
OverlapWith(segment, turn) ==
    Overlap(segment.start, segment.end, turn.start, turn.end)

\* The greatest overlap of a segment with a turn of a non-empty list.
MaxOverlap(segment, turns) ==
    CHOOSE v \in {OverlapWith(segment, turns[j]) : j \in 1..Len(turns)} :
        \A j \in 1..Len(turns) : OverlapWith(segment, turns[j]) <= v

\* C15: after a call with a non-empty list of turns every segment has the
\* speaker of a turn of maximal overlap if that overlap, zero included, is at
\* least min_overlap_seconds, and no speaker otherwise.
C15_SpeakerByOverlapAndThreshold ==
    (sp_pc = "done" /\ sp_turns # <<>>) =>
        \A i \in 1..Len(sp_segments) :
            LET best == MaxOverlap(sp_segments[i], sp_turns)
            IN IF best >= sp_min_overlap
               THEN \E j \in 1..Len(sp_turns) :
                        /\ OverlapWith(sp_segments[i], sp_turns[j]) = best
                        /\ sp_segments[i].speaker = sp_turns[j].speaker
               ELSE sp_segments[i].speaker = None

\* ------------------------------------------------------------ C16
\* The positions of the turns whose overlap with the segment is maximal.
TiedTurns(segment, turns) ==
    {j \in 1..Len(turns) : OverlapWith(segment, turns[j]) = MaxOverlap(segment, turns)}

FirstOf(positions) == CHOOSE j \in positions : \A k \in positions : j <= k

\* C16: when two or more turns share the maximal overlap with a segment,
\* that overlap being positive and at least the threshold, the segment gets
\* the speaker of the first of them in the order the turns were given.
C16_TieGoesToFirstTurn ==
    (sp_pc = "done" /\ sp_turns # <<>>) =>
        \A i \in 1..Len(sp_segments) :
            LET tied == TiedTurns(sp_segments[i], sp_turns)
                best == MaxOverlap(sp_segments[i], sp_turns)
            IN (Cardinality(tied) >= 2 /\ best > 0 /\ best >= sp_min_overlap) =>
                   sp_segments[i].speaker = sp_turns[FirstOf(tied)].speaker

\* Two turns of different speakers tie on a segment, the later turn in time
\* given first, and the segment has a speaker.
C16_Witness ==
    /\ sp_pc = "done"
    /\ Len(sp_turns) = 2
    /\ sp_turns[1].speaker # sp_turns[2].speaker
    /\ sp_turns[1].start > sp_turns[2].start
    /\ Len(sp_segments) >= 1
    /\ Cardinality(TiedTurns(sp_segments[1], sp_turns)) = 2
    /\ MaxOverlap(sp_segments[1], sp_turns) > 0
    /\ sp_segments[1].speaker = sp_turns[1].speaker

\* ------------------------------------------------------------ C17
\* C17: a call leaves its list of turns as it was, and a call with an empty
\* list of turns leaves every segment, its speaker included, as it was.
C17_NoTurnsNoMutation ==
    [][sp_pc = "input" =>
          /\ sp_turns' = sp_turns
          /\ (sp_turns = <<>> => sp_segments' = sp_segments)]_vars

\* A finished call with no turns on two segments, one of which had a
\* speaker before the call.
C17_Witness ==
    /\ sp_pc = "done"
    /\ sp_turns = <<>>
    /\ Len(sp_segments) = 2
    /\ sp_segments[1].speaker = "SPEAKER_09"
    /\ sp_segments[2].speaker = None

\* ------------------------------------------------------------ C18
\* C18: under every interleaving of concurrent transcribe calls each factory
\* has returned at most one instance, and every call that got an object
\* from an _ensure_* got that one instance.
C18_LazyInitOnce ==
    lz_pc # <<>> =>
        \A r \in Resources :
            /\ lz_constructed[r] <= 1
            /\ \A t \in Threads : lz_used[t][r] \in {0, lz_value[r]}

\* Two calls that raced for the model's lock and both finished with the
\* same model, diarization service and pipeline.
C18_Witness ==
    /\ lz_pc # <<>>
    /\ \A t \in Threads : lz_pc[t] = "done"
    /\ \A r \in Resources :
           /\ lz_constructed[r] = 1
           /\ \A t \in Threads : lz_used[t][r] = 1

\* ------------------------------------------------------------ C19
\* The backend answered with a JSON document, bare or in a ```json fence.
ParsedResponse == cl_response.kind = "text" /\ cl_response.format \in {"json", "fenced"}

\* The classify call returned the UNCLEAR fallback.
ReturnedFallback ==
    /\ cl_result.raised = None
    /\ cl_result.output.label = "UNCLEAR"
    /\ cl_result.output.rationale.source = "fallback"
    /\ cl_result.output.spans = <<>>

\* A span with non-negative char_start <= char_end.
SpanWellFormed(span) ==
    span.char_start >= 0 /\ span.char_end >= 0 /\ span.char_start <= span.char_end

\* C19: a response with an evidence span that is not a pair of non-negative
\* integers char_start <= char_end is rejected: classify returns the
\* UNCLEAR fallback and not the response's label.
C19_InvalidSpanRejected ==
    (cl_pc = "done" /\ ParsedResponse /\ cl_response.doc.is_object
        /\ \E i \in 1..Len(cl_response.doc.spans) :
               ~SpanWellFormed(cl_response.doc.spans[i])) =>
        ReturnedFallback

\* ------------------------------------------------------------ C20
\* What the claim asks of a parsed response.
ResponseAcceptable(doc) ==
    /\ doc.is_object
    /\ {"label", "rationale", "spans", "safety"} \subseteq doc.keys
    /\ doc.label \in {"NONE", "PROFANITY", "HATE", "EXTREMIST", "BOTH", "UNCLEAR",
                      "UNCLEAR_ASR"}
    /\ doc.rationale_len <= 500
    /\ {"used_asr_confidence_rule", "notes"} \subseteq doc.safety_keys

\* C20: classify returns the label and rationale of the response only if
\* the response is an object with label, rationale, spans and safety, its
\* label in the closed set, its rationale at most 500 characters and its
\* safety holding both keys; a parsed response failing any of these gives
\* the UNCLEAR fallback.
C20_ResponseValidated ==
    cl_pc = "done" =>
        /\ cl_result.output.rationale.source = "model" =>
               ParsedResponse /\ ResponseAcceptable(cl_response.doc)
        /\ (ParsedResponse /\ ~ResponseAcceptable(cl_response.doc)) => ReturnedFallback

\* A response in a ```json fence whose only defect is a rationale one
\* character too long, answered with the fallback.
C20_Witness ==
    /\ cl_pc = "done"
    /\ cl_response.kind = "text"
    /\ cl_response.format = "fenced"
    /\ cl_response.doc.is_object
    /\ cl_response.doc.keys = TopKeys
    /\ cl_response.doc.label = "HATE"
    /\ cl_response.doc.safety_keys = SafetyKeys
    /\ cl_response.doc.spans = <<>>
    /\ cl_response.doc.rationale_len = RationaleMaxLength + 1
    /\ ReturnedFallback

\* ------------------------------------------------------------ C21
\* The response text is not JSON itself but holds a fenced code block.
FencedResponse ==
    cl_response.kind = "text" /\ cl_response.format \in {"fenced", "fenced_untagged"}

\* The classify call returned the document's own fields.
ReturnedDocument ==
    /\ cl_result.raised = None
    /\ cl_result.output.label = cl_response.doc.label
    /\ cl_result.output.rationale.source = "model"
    /\ cl_result.output.rationale.len = cl_response.doc.rationale_len
    /\ cl_result.output.spans = cl_response.doc.spans
    /\ cl_result.output.safety.used_asr_confidence_rule =
           cl_response.doc.used_asr_confidence_rule

\* C21: a response that is not JSON but holds a fenced code block around a
\* JSON object satisfying the schema is answered with that object's label,
\* rationale, spans and safety; a response with no such block, or whose
\* block does not parse or validate, is answered with UNCLEAR.
C21_FencedBlockRecovered ==
    cl_pc = "done" =>
        /\ (FencedResponse /\ SchemaValid(cl_response.doc)) => ReturnedDocument
        /\ (cl_response.kind = "text" /\ cl_response.format \in {"garbage", "fenced_bad"})
               => ReturnedFallback
        /\ (FencedResponse /\ ~SchemaValid(cl_response.doc)) => ReturnedFallback

\* ------------------------------------------------------------ C22
\* The milliseconds of the audio inside some flagged segment of the run.
FlaggedMs ==
    UNION {SegmentMs(classified_segments[i]) :
               i \in {k \in 1..Len(classified_segments) : Flagged(classified_segments[k])}}

\* C22: once a run has redacted, every millisecond of the audio in no
\* flagged segment is in exactly one keep range, the keep ranges ascend, and
\* the sanitized audio is those milliseconds in their order.
C22_NoOverRedaction ==
    (pc \in {"assemble", "done"} /\ redaction.exports = 1) =>
        /\ \A m \in (0..(audio_ms - 1)) \ FlaggedMs :
               Cardinality({k \in 1..Len(redaction.keep_ranges) :
                               /\ redaction.keep_ranges[k][1] <= m
                               /\ m < redaction.keep_ranges[k][2]}) = 1
        /\ \A k \in 1..(Len(redaction.keep_ranges) - 1) :
               redaction.keep_ranges[k][2] <= redaction.keep_ranges[k + 1][1]
        /\ \A j \in 1..(Len(sanitized_audio.samples) - 1) :
               sanitized_audio.samples[j] < sanitized_audio.samples[j + 1]
        /\ \A m \in (0..(audio_ms - 1)) \ FlaggedMs :
               \E j \in 1..Len(sanitized_audio.samples) :
                   sanitized_audio.samples[j] = m + 1

\* A returned result with a flagged segment at the start of the audio, a
\* flagged segment beyond its end, and the audio between them kept.
C22_Witness ==
    /\ pc = "done"
    /\ redaction.exports = 1
    /\ Len(classified_segments) = 2
    /\ \A i \in 1..2 : Flagged(classified_segments[i])
    /\ 0 \in SegmentMs(classified_segments[1])
    /\ FloorMs(classified_segments[2].start) >= audio_ms
    /\ result.sanitized_audio.samples # <<>>
    /\ FlaggedMs # {}

\* ------------------------------------------------------------ C23
\* The place of a step of run in the order of its steps.
StepRank(p) ==
    CASE p = "start" -> 0
      [] p = "classify" -> 1
      [] p = "redact" -> 2
      [] p = "assemble" -> 3
      [] OTHER -> 4

\* C23: the steps of a run follow one another without retry.  Nothing is
\* classified before the transcript is there; the k-th classify call is for
\* the k-th segment; redaction is called only when every segment has been
\* classified once; the result is assembled after that and nothing follows
\* it; no step is taken twice and the transcript never changes once made.
C23_StepsSequentialNoRetry ==
    /\ [](pc = "start" =>
              classify_calls = <<>> /\ redaction.calls = 0 /\ ~result.present)
    /\ [](/\ Len(classify_calls) <= Len(segments)
          /\ \A k \in 1..Len(classify_calls) :
                 classify_calls[k].index = segments[k].index /\ segments[k].index = k - 1)
    /\ [](redaction.calls > 0 => Len(classify_calls) = Len(segments))
    /\ [](result.present =>
              pc = "done" /\ Len(result.segments) = Len(segments))
    /\ [][/\ pc # "done" /\ pc # "failed"
          /\ StepRank(pc') >= StepRank(pc)
          /\ StepRank(pc') = StepRank(pc) =>
                 /\ pc = "classify"
                 /\ Len(classify_calls') = Len(classify_calls) + 1
          /\ Len(classify_calls') \in {Len(classify_calls), Len(classify_calls) + 1}
          /\ SubSeq(classify_calls', 1, Len(classify_calls)) = classify_calls
          /\ redaction'.calls \in {redaction.calls, redaction.calls + 1}
          /\ redaction'.calls <= 1
          /\ pc # "start" => segments' = segments]_vars

\* A returned result of a run that transcribed with diarization, classified
\* two segments and redacted.
C23_Witness ==
    /\ pc = "done"
    /\ result.present
    /\ Len(segments) = 2
    /\ segments[1].speaker # None
    /\ Len(classify_calls) = 2
    /\ redaction.exports = 1

\* ------------------------------------------------------------ C24
\* C24: a run ends in one of two ways.  Either it raised one error and
\* returned nothing, or it returned a result in which every transcript
\* segment is classified, the sanitized audio is there exactly when
\* removed_intervals is non-empty, and no segment labelled for removal
\* comes without sanitized audio.
C24_NoPartialSuccess ==
    /\ (error # None) <=> (pc = "failed")
    /\ result.present <=> (pc = "done")
    /\ error # None => ~result.present
    /\ result.present =>
           /\ error = None
           /\ Len(result.segments) = Len(segments)
           /\ \A i \in 1..Len(result.segments) :
                  /\ result.segments[i].index = segments[i].index
                  /\ result.segments[i].classification.label \in LABELS
           /\ result.sanitized_audio.present <=> (result.removed_intervals # <<>>)
           /\ \A i \in 1..Len(result.segments) :
                  Flagged(result.segments[i]) => result.sanitized_audio.present

\* A returned result with one segment degraded to the fallback and one
\* segment labelled for removal, the sanitized audio present.
C24_Witness ==
    /\ result.present
    /\ Len(result.segments) = 2
    /\ result.segments[1].classification.rationale.source = "fallback"
    /\ Flagged(result.segments[2])
    /\ result.sanitized_audio.present
    /\ result.removed_intervals # <<>>

\* ------------------------------------------------------------ C25
\* Some segment of the result is labelled HATE, PROFANITY, EXTREMIST or BOTH.
AnyOffensive ==
    \E i \in 1..Len(ng_result) :
        ng_result[i].label \in {"HATE", "PROFANITY", "EXTREMIST", "BOTH"}

\* C25: run_negative_output_handling never raises and returns a dictionary
\* with status and summary.  The status is clean, with no processing
\* section, exactly when no segment is offensive; otherwise it is success
\* when the pipeline reports success, partial with a processing section and
\* a message when it ran and reports failure, and unavailable or error with
\* no processing section when it raised.  It is never pending.
C25_NegativeHandlingStatus ==
    ng_pc = "done" =>
        /\ ng_payload.raised = None
        /\ {"status", "summary"} \subseteq ng_payload.keys
        /\ ng_payload.status # "pending"
        /\ (ng_payload.status = "clean") <=> ~AnyOffensive
        /\ ~AnyOffensive => "processing" \notin ng_payload.keys
        /\ (AnyOffensive /\ ng_outcome.kind = "returns" /\ ng_outcome.success) =>
               ng_payload.status = "success" /\ "processing" \in ng_payload.keys
        /\ (AnyOffensive /\ ng_outcome.kind = "returns" /\ ~ng_outcome.success) =>
               /\ ng_payload.status = "partial"
               /\ {"processing", "message"} \subseteq ng_payload.keys
        /\ (AnyOffensive /\ ng_outcome.kind = "raises") =>
               /\ ng_payload.status \in {"unavailable", "error"}
               /\ "processing" \notin ng_payload.keys

\* A result with a clean and an offensive segment whose extended pipeline
\* raised on the missing audio, answered with status error.
C25_Witness ==
    /\ ng_pc = "done"
    /\ Len(ng_result) = 2
    /\ ng_result[1].label = "NONE"
    /\ ng_result[2].label = "PROFANITY"
    /\ ng_outcome.kind = "raises"
    /\ ng_outcome.exc = "AttributeError"
    /\ ng_payload.status = "error"
    /\ ng_payload.flagged_segments = 1

\* ------------------------------------------------------------ C26
\* The (start, end) of the segments labelled in a set, in transcript order.
RECURSIVE IntervalsLabelled(_, _)
IntervalsLabelled(segs, labels) ==
    IF segs = <<>> THEN <<>>
    ELSE IF Head(segs).classification.label \in labels
         THEN <<<<Head(segs).start, Head(segs).end>>>> \o IntervalsLabelled(Tail(segs), labels)
         ELSE IntervalsLabelled(Tail(segs), labels)

\* C26: the removed_intervals of a result is the merge of the intervals of
\* the segments labelled in the removal set and of no others; a pipeline
\* built without removal_labels removes for HATE, EXTREMIST and BOTH only,
\* so a result whose segments are all NONE, PROFANITY, UNCLEAR or
\* UNCLEAR_ASR has no removed interval and saw no redaction.
C26_RemovedIntervalsFromRemovalSet ==
    result.present =>
        /\ result.removed_intervals =
               merge_intervals(IntervalsLabelled(result.segments, removal_labels))
        /\ ~removal_labels_arg.given =>
               /\ result.removed_intervals =
                      merge_intervals(IntervalsLabelled(result.segments,
                                                        {"HATE", "EXTREMIST", "BOTH"}))
               /\ (\A i \in 1..Len(result.segments) :
                       result.segments[i].classification.label
                           \in {"NONE", "PROFANITY", "UNCLEAR", "UNCLEAR_ASR"}) =>
                      /\ result.removed_intervals = <<>>
                      /\ redaction.calls = 0
                      /\ ~result.sanitized_audio.present

\* A result of a pipeline with the default set: a PROFANITY segment that
\* contributed nothing beside an EXTREMIST segment that did.
C26_Witness ==
    /\ result.present
    /\ ~removal_labels_arg.given
    /\ Len(result.segments) = 2
    /\ result.segments[1].classification.label = "PROFANITY"
    /\ result.segments[2].classification.label = "EXTREMIST"
    /\ result.removed_intervals =
           <<<<result.segments[2].start, result.segments[2].end>>>>

\* ------------------------------------------------------------ C27
\* C27: every ClassificationOutput classify returns, from a validated
\* response or from the fallback of any error, has a rationale of at most
\* 500 characters, however long the message of the error is.
C27_RationaleBounded ==
    (cl_pc = "done" /\ cl_result.raised = None) =>
        cl_result.output.rationale.len <= RationaleMaxLength

\* ------------------------------------------------------------ C28
\* A transcribe call that has not taken its first step while every other
\* call on the service has ended: a later call.
LaterCall(t) ==
    /\ lz_pc[t] = "check"
    /\ lz_res[t] = "model"
    /\ \A u \in Threads \ {t} : lz_pc[u] \in {"done", "failed"}

\* C28: a failure of diarization disables it for the call in which it
\* happens only: a step of a transcribe call, a failed construction of the
\* diarizer included, taken while the settings enable diarization leaves
\* them enabling it for the call that begins after every other has ended, so
\* that this later call attempts diarization again.
C28_DiarizationAttemptedAgain ==
    [][\A t \in Threads : (lz_enabled /\ LaterCall(t)') => lz_enabled']_vars

\* ------------------------------------------------------------ C29
\* The removal_labels the pipeline was constructed with: the set passed to
\* the constructor, or the default when none was passed.
ConstructedRemovalLabels ==
    IF removal_labels_arg.given THEN removal_labels_arg.labels
    ELSE DEFAULT_REMOVAL_LABELS

\* C29: a segment is flagged exactly when its label is in the removal_labels
\* the pipeline was constructed with, the empty set included: the removed
\* intervals of a result are those of the segments so labelled, and a
\* pipeline constructed with the empty set removes nothing and never redacts.
C29_FlaggedIffInConstructedSet ==
    result.present =>
        /\ result.removed_intervals =
               merge_intervals(IntervalsLabelled(result.segments, ConstructedRemovalLabels))
        /\ ConstructedRemovalLabels = {} =>
               /\ result.removed_intervals = <<>>
               /\ redaction.calls = 0
               /\ ~result.sanitized_audio.present

\* ------------------------------------------------------------ C30
\* A segment whose classification is the fallback of a failed call.
Degraded(segment) == segment.classification.rationale.source = "fallback"

\* The segments of a list whose classification did not degrade.
RECURSIVE WithoutDegraded(_)
WithoutDegraded(segs) ==
    IF segs = <<>> THEN <<>>
    ELSE IF Degraded(Head(segs)) THEN WithoutDegraded(Tail(segs))
         ELSE <<Head(segs)>> \o WithoutDegraded(Tail(segs))

\* C30: under the default removal set a segment whose classification
\* degraded to the fallback is labelled UNCLEAR and adds no interval to the
\* removed ones; a result whose segments all degraded has every segment
\* labelled UNCLEAR, no sanitized audio and no removed interval, and its run
\* did not redact.
C30_ClassificationFailureKeepsAudio ==
    (result.present /\ removal_labels = DEFAULT_REMOVAL_LABELS) =>
        /\ \A i \in 1..Len(result.segments) :
               Degraded(result.segments[i]) =>
                   result.segments[i].classification.label = "UNCLEAR"
        /\ result.removed_intervals =
               merge_intervals(IntervalsLabelled(WithoutDegraded(result.segments),
                                                 DEFAULT_REMOVAL_LABELS))
        /\ (\A i \in 1..Len(result.segments) : Degraded(result.segments[i])) =>
               /\ result.removed_intervals = <<>>
               /\ ~result.sanitized_audio.present
               /\ redaction.calls = 0

\* A result of two segments for both of which the backend's call failed.
C30_Witness ==
    /\ result.present
    /\ removal_labels = DEFAULT_REMOVAL_LABELS
    /\ Len(result.segments) = 2
    /\ \A i \in 1..2 :
           /\ Degraded(result.segments[i])
           /\ result.segments[i].classification.rationale.error = "APIError"
           /\ result.segments[i].classification.label = "UNCLEAR"
    /\ result.removed_intervals = <<>>
    /\ ~result.sanitized_audio.present

=============================================================================
